---- MODULE Spec2Model ----
(***************************************************************************)
(* Rate limiting and cache coordination layer of the API service:          *)
(*   app/core/rate_limit.py  - RateLimiter, rate_limit, RateLimitDependency *)
(*   app/core/cache.py       - RedisCache, cache, invalidate_cache          *)
(* The Redis server is one key space shared by both components.  Time is   *)
(* counted in whole seconds; time.time() is read from the variable clock,  *)
(* which never runs backwards but may return the same reading twice.       *)
(***************************************************************************)
EXTENDS Integers, Sequences, FiniteSets, TLC

\* ---------------------------------------------------------------- bounds
MaxClock == 3
MaxCalls == 3
MaxTasks == 2
MaxRequests == 2
MaxProductRequests == 3
MaxDepth == 2

Tasks == 1..MaxTasks

\* Client identifiers (the md5 digests get_client_identifier returns).
Identities == {"X"}

\* RateLimitConfig instances registered by the model's operations.
RateLimitConfig ==
  { [requests |-> 2, period_seconds |-> 3, prefix |-> "ratelimit"],
    [requests |-> 1, period_seconds |-> 2, prefix |-> "ratelimit"] }

\* The clients and configurations of the calls that meet in one store: two
\* clients, and an operation registered under a prefix of its own.
WindowIdentities == {"X", "Y"}

WindowConfig ==
  RateLimitConfig \cup {[requests |-> 1, period_seconds |-> 2, prefix |-> "orders"]}

NoExpiry == -1

VARIABLES
  clock,             \* the reading time.time() returns, and the server's clock
  rl_initialized,    \* RateLimiter._initialized
  cache_initialized, \* RedisCache._initialized
  redis_client,      \* RedisCache._redis_client is not None
  shutdown,          \* the application has begun to shut down (main.py shutdown_clients)
  store,             \* the Redis key space: key -> entry
  task,              \* per task: the coroutine's position and locals
  log,               \* is_rate_limited calls that sent their pipeline, in completion order
  ret,               \* what the most recent is_rate_limited call returned
  overlap,           \* some is_rate_limited call began while another was pending
  testing_disabled,  \* RateLimitDependency._testing_disabled
  req,               \* per task: the request being served and how far it has got
  responses,         \* the outcomes of the requests served, in completion order
  db,                \* the database: how many mutations have been committed
  keygen,            \* a derivation of a cache key: its inputs and what it returned
  codec              \* a value taken through _serialize and _deserialize

vars == <<clock, rl_initialized, cache_initialized, redis_client, shutdown, store,
          task, log, ret, overlap, testing_disabled, req, responses, db, keygen, codec>>

\* The state of the pure functions examined on their own.
pure_vars == <<keygen, codec>>

\* The state of the request layer and of the key derivation, which a direct
\* call of the limiter leaves alone.
http_vars == <<testing_disabled, req, responses, db, pure_vars>>

\* ------------------------------------------------------------ Redis server
Max(a, b) == IF a >= b THEN a ELSE b

Exists(s, k) == k \in DOMAIN s

Put(s, k, e) == [x \in (DOMAIN s) \cup {k} |-> IF x = k THEN e ELSE s[x]]

Del(s, ks) == [x \in (DOMAIN s) \ ks |-> s[x]]

\* ZADD key {member: score}: a member already present only has its score updated.
zadd(s, k, member, score) ==
  LET old == IF Exists(s, k) THEN s[k].members ELSE {}
      exp == IF Exists(s, k) THEN s[k].exp ELSE NoExpiry
      kept == {m \in old : m.member # member}
  IN  Put(s, k, [type |-> "zset",
                 members |-> kept \cup {[member |-> member, score |-> score]},
                 exp |-> exp])

zremrangebyscore_mut(s, k, min, max) == s

\* ZREMRANGEBYSCORE key min max: both ends inclusive; an emptied set is removed.
zremrangebyscore(s, k, min, max) ==
  IF ~Exists(s, k) THEN s
  ELSE LET kept == {m \in s[k].members : ~(min <= m.score /\ m.score <= max)}
       IN  IF kept = {} THEN Del(s, {k})
           ELSE Put(s, k, [s[k] EXCEPT !.members = kept])

zcard(s, k) == IF Exists(s, k) THEN Cardinality(s[k].members) ELSE 0

\* EXPIRE key seconds, executed by the server at time tnow.
expire(s, k, seconds, tnow) ==
  IF Exists(s, k) THEN Put(s, k, [s[k] EXCEPT !.exp = tnow + seconds]) ELSE s

\* Keys whose time to live has run out at time t are gone.
Expired(s, t) == {k \in DOMAIN s : s[k].exp # NoExpiry /\ s[k].exp <= t}

\* --------------------------------------------------------- RateLimiter
key_name_mut(config, key) == config.prefix

key_name(config, key) == config.prefix \o ":" \o key

window_start_mut(now, config) == now - 2 * config.period_seconds

window_start(now, config) == now - config.period_seconds

\* The pipeline of is_rate_limited, executed as one MULTI/EXEC transaction.
pipeline_execute(s, key, config, now, tnow) ==
  LET kn == key_name(config, key)
      s1 == zadd(s, kn, ToString(now), now)
      s2 == zremrangebyscore(s1, kn, 0, window_start(now, config))
      s3 == expire(s2, kn, config.period_seconds, tnow)
  IN  [store |-> s3, request_count |-> zcard(s2, kn)]

requests_remaining(config, request_count) == Max(0, config.requests - request_count)

reset_time(now, config) == config.period_seconds - (now % config.period_seconds)

is_limited(config, request_count) == request_count > config.requests

\* What is_rate_limited returns when it does not consult the store.
fail_open(config) ==
  [kind |-> "return", limited |-> FALSE,
   remaining |-> config.requests, reset |-> config.period_seconds]

\* The except branch of is_rate_limited: the error is logged and swallowed.
on_exception_mut(config) ==
  [kind |-> "raise", limited |-> FALSE,
   remaining |-> config.requests, reset |-> config.period_seconds]

on_exception(config) == fail_open(config)

\* RateLimiter.client -> RedisCache.client raises RuntimeError in this case.
client_raises == ~redis_client \/ ~cache_initialized

not_initialized_mut == FALSE

not_initialized == ~rl_initialized

Idle == [pc |-> "idle", key |-> "X", config |-> CHOOSE c \in RateLimitConfig : TRUE,
         now |-> 0, init |-> FALSE]

\* The record of one call: its arguments, the clock reading, whether the limiter
\* was initialized when it began, how it ended, the number of commands it sent
\* to the store and the count it read, and the tuple it returned.
Entry(me, status, ops, count, res) ==
  [key |-> me.key, config |-> me.config, now |-> me.now,
   init |-> me.init, status |-> status, ops |-> ops, count |-> count,
   kind |-> res.kind, limited |-> res.limited,
   remaining |-> res.remaining, reset |-> res.reset]

\* What a caller sees of a call: the configuration it passed and what came back.
Returned(e) ==
  [config |-> e.config, init |-> e.init, status |-> e.status, ops |-> e.ops,
   kind |-> e.kind, limited |-> e.limited, remaining |-> e.remaining, reset |-> e.reset]

NoRet == Returned(Entry(Idle, "none", 0, 0, fail_open(Idle.config)))

Pending == {t \in Tasks : task[t].pc = "pending"}

\* ------------------------------------------------------------ Python values
\* A value is a record of its type name t and its content v.
None == [t |-> "NoneType", v |-> ""]

PyBool(b) == [t |-> "bool", v |-> b]

PyInt(i) == [t |-> "int", v |-> i]

PyStr(str) == [t |-> "str", v |-> str]

PyList(items) == [t |-> "list", v |-> items]

\* A dict is the sequence of its <<key, value>> pairs, in insertion order.
PyDict(pairs) == [t |-> "dict", v |-> pairs]

\* An instance of a SQLAlchemy model (app.db.base.Base), by its columns.
Base(pairs) == [t |-> "Base", v |-> pairs]

\* A starlette JSONResponse, by its content; the only value with .headers.
JSONResponse(pairs) == [t |-> "Response", v |-> pairs]

NoValue == [t |-> "", v |-> ""]

\* A float, by its repr ("0.5", "nan"), and a decimal.Decimal, by its str.
PyFloat(repr) == [t |-> "float", v |-> repr]
PyDecimal(text) == [t |-> "Decimal", v |-> text]

Order == Base(<< <<"customer_name", PyStr("Test Customer")>> >>)

Product == Base(<< <<"sku", PyStr("A1")>> >>)

\* Values the cached operations of the model compute.
ComputeValues ==
  { None, PyBool(FALSE), PyInt(0), PyStr(""), PyList(<< >>), PyDict(<< >>),
    PyList(<<PyInt(1)>>) }

\* The values json.loads can build from the texts the model stores.
JsonValues ==
  ComputeValues \cup
  { PyBool(TRUE), PyInt(1), PyStr("A1"),
    PyDict(Product.v), PyList(<<PyDict(Product.v)>>) }
  \cup { PyDict(<< <<"stock", PyInt(d)>> >>) : d \in 0..MaxProductRequests }

RECURSIVE Join(_, _)
Join(parts, sep) ==
  IF Len(parts) = 0 THEN ""
  ELSE IF Len(parts) = 1 THEN parts[1]
  ELSE parts[1] \o sep \o Join(Tail(parts), sep)

\* float(obj) for a Decimal, by the texts of the decimals examined.
float(text) ==
  CASE text = "0.5" -> "0.5"
    [] text = "1000" -> "1000.0"

default_mut(obj) == PyStr(obj.v)

\* CustomJSONEncoder.default for a Decimal: return float(obj).
default(obj) == PyFloat(float(obj.v))

\* float.__repr__ as json.dumps writes it: nan is written NaN.
float_repr(repr) == IF repr = "nan" THEN "NaN" ELSE repr

\* json.dumps(value, cls=CustomJSONEncoder); a model instance is encoded as the
\* dict jsonable_encoder makes of it.
RECURSIVE dumps(_)
dumps(value) ==
  CASE value.t = "NoneType" -> "null"
    [] value.t = "bool" -> IF value.v THEN "true" ELSE "false"
    [] value.t = "int" -> ToString(value.v)
    [] value.t = "float" -> float_repr(value.v)
    [] value.t = "Decimal" -> dumps(default(value))
    [] value.t = "str" -> "\"" \o value.v \o "\""
    [] value.t = "list" ->
         "[" \o Join([i \in DOMAIN value.v |-> dumps(value.v[i])], ", ") \o "]"
    [] value.t \in {"dict", "Base"} ->
         "{" \o Join([i \in DOMAIN value.v |->
                        "\"" \o value.v[i][1] \o "\": " \o dumps(value.v[i][2])],
                     ", ") \o "}"

_serialize(value) == dumps(value)

\* A list that contains itself: json.dumps raises ValueError (circular
\* reference) before the encoder's default() is asked.
Circular == [t |-> "circular", v |-> ""]

\* The values taken through the serializer on their own: the primitives, a
\* Decimal, and lists and string-keyed dicts of them, nested MaxDepth deep.
Primitives ==
  {None, PyBool(TRUE), PyInt(1), PyStr("x"), PyFloat("0.5"), PyFloat("nan"),
   PyDecimal("0.5"), PyDecimal("1000")}

Containers(values) ==
  {PyList(<< >>), PyDict(<< >>)}
    \cup {PyList(<<x>>) : x \in values}
    \cup {PyDict(<< <<"k", x>> >>) : x \in values}

RECURSIVE Nested(_)
Nested(depth) ==
  IF depth = 0 THEN Primitives
  ELSE Nested(depth - 1) \cup Containers(Nested(depth - 1))

CodecValues ==
  Nested(MaxDepth) \cup {PyList(<<x, y>>) : x, y \in Primitives}

\* The value with every Decimal in it replaced by the float of its value.
RECURSIVE Native(_)
Native(value) ==
  CASE value.t = "Decimal" -> PyFloat(float(value.v))
    [] value.t = "list" -> PyList([i \in DOMAIN value.v |-> Native(value.v[i])])
    [] value.t = "dict" ->
         PyDict([i \in DOMAIN value.v |-> <<value.v[i][1], Native(value.v[i][2])>>])
    [] OTHER -> value

\* What json.loads can return for the texts written for CodecValues.
LoadedValues == {Native(x) : x \in CodecValues}

\* _serialize logs and re-raises what json.dumps raises.
serialize_raises(value) == value.t = "circular"

\* json.loads(value); a text that is not JSON is returned as it is.
_deserialize(value) ==
  IF \E x \in JsonValues : dumps(x) = value
  THEN CHOOSE x \in JsonValues : dumps(x) = value
  ELSE IF \E x \in LoadedValues : dumps(x) = value
       THEN CHOOSE x \in LoadedValues : dumps(x) = value
       ELSE PyStr(value)

\* --------------------------------------------------------- cache commands
\* The reply of GET: nil, or the text stored under the key.
Nil == [nil |-> TRUE, val |-> ""]

get(s, k) == IF Exists(s, k) THEN [nil |-> FALSE, val |-> s[k].val] ELSE Nil

\* SET key value EX ex, executed by the server at time tnow; without the EX
\* option (ex = NoExpiry) the key is stored without expiry.
set(s, k, value, ex, tnow) ==
  Put(s, k, [type |-> "string", val |-> value,
             exp |-> IF ex = NoExpiry THEN NoExpiry ELSE tnow + ex])

\* Glob patterns of the form literal*, the only form the endpoints use.
glob_match(pattern, k) ==
  LET n == Len(pattern) - 1
  IN  Len(k) >= n /\ SubSeq(k, 1, n) = SubSeq(pattern, 1, n)

keys_mut(s, pattern) == DOMAIN s

\* KEYS pattern: the keys of the store that match.
keys(s, pattern) == {k \in DOMAIN s : glob_match(pattern, k)}

\* The characters of the keys, in code point order; ord(ch) is the rank of a
\* character in it.
Alphabet ==
  " \",0123456789:ABCDEFGHIJKLMNOPQRSTUVWXYZ[]_abcdefghijklmnopqrstuvwxyz{}"

ord(ch) == CHOOSE i \in 1..Len(Alphabet) : SubSeq(Alphabet, i, i) = ch

encode(text) == [i \in 1..Len(text) |-> ord(SubSeq(text, i, i))]

HexDigits == "0123456789abcdef"
Radix == 16
LaneWidth == 46337
LaneBases == <<31, 37, 41, 43, 47, 53, 59, 61>>

\* base^n modulo LaneWidth.
RECURSIVE Power(_, _)
Power(base, n) ==
  IF n = 0 THEN 1
  ELSE LET half == Power(base, n \div 2)
           square == (half * half) % LaneWidth
       IN  IF n % 2 = 0 THEN square ELSE (square * base) % LaneWidth

\* One lane of the digest: the polynomial in base whose coefficients are the
\* characters lo..hi, modulo LaneWidth.
RECURSIVE Lane(_, _, _, _)
Lane(codes, base, lo, hi) ==
  IF lo > hi THEN 0
  ELSE IF lo = hi THEN codes[lo]
  ELSE LET mid == (lo + hi) \div 2
       IN  (Lane(codes, base, lo, mid) * Power(base, hi - mid)
              + Lane(codes, base, mid + 1, hi)) % LaneWidth

hex(n) == SubSeq(HexDigits, n + 1, n + 1)

\* "%04x" % n
hex4(n) ==
  hex(n \div (Radix * Radix * Radix)) \o hex((n \div (Radix * Radix)) % Radix)
    \o hex((n \div Radix) % Radix) \o hex(n % Radix)

\* hashlib.md5(key_str.encode()).hexdigest(): a 128-bit digest written as 32
\* hexadecimal digits.  The digest function here is a stand-in for MD5, made
\* of eight lanes of four digits; like MD5 it sends the distinct strings the
\* model hashes to distinct digests.
hexdigest(key_str) ==
  LET codes == encode(key_str)
  IN  Join([j \in 1..Len(LaneBases) |-> hex4(Lane(codes, LaneBases[j], 1, Len(codes)))], "")

\* str(v) for the values of parameters.
Decimal == "0123456789"
str(v) == IF v.t = "int" THEN SubSeq(Decimal, v.v + 1, v.v + 1) ELSE v.v

\* a < b for strings, as Python compares them (by code points).
RECURSIVE StrLess(_, _)
StrLess(a, b) ==
  IF b = "" THEN FALSE
  ELSE IF a = "" THEN TRUE
  ELSE LET x == ord(SubSeq(a, 1, 1))
           y == ord(SubSeq(b, 1, 1))
       IN  IF x # y THEN x < y
           ELSE StrLess(SubSeq(a, 2, Len(a)), SubSeq(b, 2, Len(b)))

sorted_mut(items) == items

\* sorted(d.items()) and sorted(d.keys()) of a dict given as the sequence of
\* its <<name, value>> pairs in insertion order: the pairs by ascending name.
sorted(items) ==
  CHOOSE out \in [1..Len(items) -> {items[i] : i \in DOMAIN items}] :
    /\ \A i \in DOMAIN items : \E j \in DOMAIN out : out[j] = items[i]
    /\ \A i, j \in DOMAIN out : i < j => StrLess(out[i][1], out[j][1])

\* dict(request.query_params): each name once, at the place of its first
\* occurrence, with the value of its last occurrence.
dict(multi) ==
  LET first == {i \in DOMAIN multi : \A j \in 1..(i - 1) : multi[j][1] # multi[i][1]}
      last(name) == CHOOSE i \in DOMAIN multi :
                      /\ multi[i][1] = name
                      /\ \A j \in DOMAIN multi : multi[j][1] = name => j <= i
      place == CHOOSE f \in [1..Cardinality(first) -> first] :
                 \A i, j \in 1..Cardinality(first) : i < j => f[i] < f[j]
  IN  [n \in 1..Cardinality(first) |->
         <<multi[place[n]][1], multi[last(multi[place[n]][1])][2]>>]

\* f"{k}:{v}" for each pair.
components(items) == [i \in DOMAIN items |-> items[i][1] \o ":" \o str(items[i][2])]

\* The positional arguments the @cache wrapper passes: its components, strings.
positional(key_components) ==
  [i \in DOMAIN key_components |-> PyStr(key_components[i])]

\* generate_cache_key(prefix, *args, **kwargs): the text that is hashed.
\* The part of the hashed text a value contributes: str(arg), or for
\* an instance of a SQLAlchemy model json.dumps(jsonable_encoder(arg)).
key_part(v) == IF v.t = "Base" THEN dumps(v) ELSE str(v)

keyword_parts_mut(kwargs) == [i \in DOMAIN kwargs |-> key_part(kwargs[i][2])]

\* The parts of the keyword arguments: f"{k}:{...}" for each, in the order given.
keyword_parts(kwargs) ==
  [i \in DOMAIN kwargs |-> kwargs[i][1] \o ":" \o key_part(kwargs[i][2])]

key_str(prefix, args, kwargs) ==
  Join(<<prefix>> \o [i \in DOMAIN args |-> key_part(args[i])]
         \o keyword_parts(sorted(kwargs)), ":")

generate_cache_key(prefix, args, kwargs) ==
  prefix \o ":" \o hexdigest(key_str(prefix, args, kwargs))

\* The key components the @cache wrapper collects after the prefix: the path
\* parameters, then the query parameters, each sorted by name.
key_components(path_params, query_params) ==
  components(sorted(path_params)) \o components(sorted(dict(query_params)))

\* The hit test of the cache decorator: cached_result is not None.
is_hit(cached_result) == cached_result # None

\* ------------------------------------------------------------- endpoints
\* app.core.config.settings, the times scaled to the model's clock.
settings == [REDIS_CACHE_EXPIRE_SECONDS |-> 3]

\* settings.RATE_LIMIT_REQUESTS per settings.RATE_LIMIT_PERIOD_SECONDS, which
\* rate_limit() uses when called without arguments, scaled to the model's clock.
default_config == [requests |-> 1, period_seconds |-> 2, prefix |-> "ratelimit"]

\* An endpoint: how it is rate limited (limiter), what wraps its function
\* (wrap), the cache prefix and time to live or the patterns of the stacked
\* invalidate_cache decorators (innermost first, the order they run in), the
\* values its function returns, and whether the function can raise.
get_order ==
  [name |-> "get_order", limiter |-> "decorator", wrap |-> "none",
   prefix |-> "", expire |-> None, patterns |-> << >>,
   returns |-> {Order}, raises |-> TRUE]

get_response_object ==
  [name |-> "get_response_object", limiter |-> "decorator", wrap |-> "none",
   prefix |-> "", expire |-> None, patterns |-> << >>,
   returns |-> {JSONResponse(<< <<"message", PyStr("This is a test response")>> >>)},
   raises |-> FALSE]

get_products ==
  [name |-> "get_products", limiter |-> "dependency", wrap |-> "cache",
   prefix |-> "products_all", expire |-> PyInt(2), patterns |-> << >>,
   returns |-> {PyList(<<Product>>)}, raises |-> TRUE]

create_product ==
  [name |-> "create_product", limiter |-> "none", wrap |-> "invalidate",
   prefix |-> "", expire |-> None, patterns |-> <<"products_*">>,
   returns |-> {Product}, raises |-> TRUE]

\* A function wrapped by @cache and called directly.
cached_op ==
  [name |-> "cached_op", limiter |-> "none", wrap |-> "cache",
   prefix |-> "cached_op", expire |-> PyInt(2), patterns |-> << >>,
   returns |-> ComputeValues \cup {Circular}, raises |-> TRUE]

\* The product row the database holds after d committed mutations.
product(d) == Base(<< <<"stock", PyInt(d)>> >>)

get_product ==
  [name |-> "get_product", limiter |-> "dependency", wrap |-> "cache",
   prefix |-> "product_id", expire |-> PyInt(2), patterns |-> << >>,
   returns |-> {}, raises |-> FALSE]

get_product_by_sku ==
  [name |-> "get_product_by_sku", limiter |-> "dependency", wrap |-> "cache",
   prefix |-> "product_sku", expire |-> PyInt(2), patterns |-> << >>,
   returns |-> {}, raises |-> FALSE]

update_product_stock ==
  [name |-> "update_product_stock", limiter |-> "none", wrap |-> "invalidate",
   prefix |-> "", expire |-> None, patterns |-> <<"product_id:*">>,
   returns |-> {}, raises |-> TRUE]

update_product ==
  [name |-> "update_product", limiter |-> "none", wrap |-> "invalidate",
   prefix |-> "", expire |-> None,
   patterns |-> <<"product_sku:*", "product_id:*", "products_*">>,
   returns |-> {}, raises |-> TRUE]

\* The endpoints that read or write the product row.
ProductEndpoints == {get_product, get_product_by_sku, update_product_stock, update_product}

\* What the function of endpoint ep returns when the database holds d mutations.
Returns(ep, d) == IF ep \in ProductEndpoints THEN {product(d)} ELSE ep.returns

\* The stock a served product shows.
Stock(v) == v.v[1][2].v

HttpEndpoints == {get_order, get_response_object, get_products, create_product}

\* A function wrapped by @cache without an expire argument.
cached_default ==
  [name |-> "cached_default", limiter |-> "none", wrap |-> "cache",
   prefix |-> "cached_default", expire |-> None, patterns |-> << >>,
   returns |-> {PyInt(1)}, raises |-> FALSE]

CachedOps == {cached_op, cached_default}

\* Path and query parameters of a request, as sorted "name:value" components.
Params == { << >>, <<"skip:0">> }

\* The parameter sets the model's calls of operation ep are made with.
ParamsOf(ep) == IF ep.name = "cached_op" THEN Params ELSE { << >> }

NoHeaders == [limit |-> "", remaining |-> "", reset |-> ""]

NoRl == [consulted |-> FALSE, limited |-> FALSE, remaining |-> 0, reset |-> 0]

NoEndpoint ==
  [name |-> "", limiter |-> "none", wrap |-> "none",
   prefix |-> "", expire |-> None, patterns |-> << >>,
   returns |-> {}, raises |-> FALSE]

NoReq ==
  [pc |-> "idle", ep |-> NoEndpoint, key |-> "X", params |-> << >>, began |-> 0,
   rl |-> NoRl, trace |-> {}, ckey |-> "", found |-> Nil, get_ok |-> FALSE,
   set_ok |-> FALSE, keys |-> {}, value |-> NoValue,
   cache_init |-> FALSE, computes |-> 0, raised |-> "",
   todo |-> << >>, inval |-> << >>]

InFlight == {t \in Tasks : req[t].pc # "idle"}

rate_limit_headers_mut(config, remaining, reset) ==
  [limit |-> ToString(config.requests), remaining |-> ToString(config.requests),
   reset |-> ToString(reset)]

\* The X-RateLimit-Limit, -Remaining and -Reset headers.
rate_limit_headers(config, remaining, reset) ==
  [limit |-> ToString(config.requests), remaining |-> ToString(remaining),
   reset |-> ToString(reset)]

\* What the route layer gets for request r from the wrappers around the endpoint
\* (a returned value, or a raised exception and the status it stands for), and
\* what was done to produce it.
Outcome(r, status_code, form, detail, headers, body) ==
  [ep |-> r.ep.name, limiter |-> r.ep.limiter, wrap |-> r.ep.wrap,
   began |-> r.began, params |-> r.params, rl |-> r.rl, trace |-> r.trace, ckey |-> r.ckey,
   found |-> r.found, get_ok |-> r.get_ok, set_ok |-> r.set_ok, value |-> r.value,
   cache_init |-> r.cache_init, computes |-> r.computes, raised |-> r.raised,
   ep_prefix |-> r.ep.prefix, patterns |-> r.ep.patterns, inval |-> r.inval,
   status_code |-> status_code, form |-> form, detail |-> detail,
   headers |-> headers, body |-> body]

\* ----------------------------------------------------------- key derivation
\* The inputs of the key derivations examined.
MaxQueryParams == 2

Categories == {PyStr("x"), PyStr("x:limit:5")}
QueryPairs == {<<n, v>> : n \in {"skip", "limit"}, v \in {PyStr("0"), PyStr("5")}}
KeywordPairs == {<<n, v>> : n \in {"a", "b"}, v \in {PyInt(1), PyStr("x"), Product}}

\* The sequences of at most MaxQueryParams pairs from a set.
Supplied(pairs) ==
  UNION {[1..n -> pairs] : n \in 0..MaxQueryParams}

\* The sequences that name no parameter twice.
Distinct(items) == \A i, j \in DOMAIN items : items[i][1] = items[j][1] => i = j

\* A call of a @cache-wrapped route (fn "wrapper": get_products with no path
\* parameter, get_products_by_category with one) or a direct call of
\* generate_cache_key with keyword arguments.
KeyCall(fn, prefix, path_params, query_params, kwargs) ==
  [pc |-> "call", fn |-> fn, prefix |-> prefix, path_params |-> path_params,
   query_params |-> query_params, args |-> << >>, kwargs |-> kwargs,
   key_str |-> "", cache_key |-> ""]

WrapperCalls ==
  {KeyCall("wrapper", "products_all", << >>, q, << >>) : q \in Supplied(QueryPairs)}
  \cup {KeyCall("wrapper", "products_category", << <<"category", c>> >>, q, << >>) :
          c \in Categories, q \in Supplied(QueryPairs)}

KeywordCalls ==
  {KeyCall("generate_cache_key", "p", << >>, << >>, k) :
     k \in {kw \in Supplied(KeywordPairs) : Distinct(kw)}}

\* Direct calls of generate_cache_key with one positional argument.
KeyValues == {PyInt(1), PyStr("x"), Product}

PositionalCalls ==
  {[KeyCall("generate_cache_key", "p", << >>, << >>, << >>) EXCEPT !.args = <<v>>] :
     v \in KeyValues}

KeyCalls == WrapperCalls \cup KeywordCalls \cup PositionalCalls

NoCall == [KeyCall("", "", << >>, << >>, << >>) EXCEPT !.pc = "idle"]

\* A value to take through the serializer, and no such value.
CodecCall(value) == [pc |-> "call", value |-> value, text |-> "", back |-> NoValue]
CodecCalls == {CodecCall(x) : x \in CodecValues}
NoCodec == [CodecCall(NoValue) EXCEPT !.pc = "idle"]

\* ------------------------------------------------------------------ Init
\* The services as constructed, before startup.
Constructed ==
  /\ clock = 0
  /\ rl_initialized = FALSE
  /\ cache_initialized = FALSE
  /\ redis_client = FALSE
  /\ shutdown = FALSE
  /\ store = << >>
  /\ task = [t \in Tasks |-> Idle]
  /\ log = << >>
  /\ ret = NoRet
  /\ overlap = FALSE
  /\ testing_disabled = FALSE
  /\ req = [t \in Tasks |-> NoReq]
  /\ responses = << >>
  /\ db = 0

Init ==
  /\ Constructed
  /\ keygen = NoCall
  /\ codec = NoCodec

\* --------------------------------------------------------------- lifecycle
Tick ==
  /\ clock < MaxClock
  /\ clock' = clock + 1
  /\ store' = Del(store, Expired(store, clock + 1))
  /\ UNCHANGED <<rl_initialized, cache_initialized, redis_client, shutdown, task, log, ret, overlap, http_vars>>

\* Startup initializes the two services; they are not initialized again once
\* shutdown has begun.
rl_initialize ==
  /\ ~shutdown
  /\ ~rl_initialized
  /\ rl_initialized' = TRUE
  /\ UNCHANGED <<clock, cache_initialized, redis_client, shutdown, store, task, log, ret, overlap, http_vars>>

rl_close ==
  /\ rl_initialized
  /\ rl_initialized' = FALSE
  /\ shutdown' = TRUE
  /\ UNCHANGED <<clock, cache_initialized, redis_client, store, task, log, ret, overlap, http_vars>>

\* RedisCache.initialize: the client object is created, then ping succeeds or raises.
cache_initialize ==
  /\ ~shutdown
  /\ ~cache_initialized
  /\ redis_client' = TRUE
  /\ \E ping_ok \in BOOLEAN : cache_initialized' = ping_ok
  /\ UNCHANGED <<clock, rl_initialized, shutdown, store, task, log, ret, overlap, http_vars>>

cache_close ==
  /\ redis_client
  /\ cache_initialized
  /\ cache_initialized' = FALSE
  /\ shutdown' = TRUE
  /\ UNCHANGED <<clock, rl_initialized, redis_client, store, task, log, ret, overlap, http_vars>>

\* ------------------------------------------------------ is_rate_limited
\* A call up to its first suspension: the guard, the clock reading, the pipeline.
is_rate_limited(t, key, config) ==
  LET me == [pc |-> "pending", key |-> key, config |-> config,
             now |-> clock, init |-> rl_initialized]
  IN  IF not_initialized
      THEN /\ ret' = Returned(Entry(me, "uninit", 0, 0, fail_open(config)))
           /\ UNCHANGED <<task, log, overlap>>
      ELSE IF client_raises
      THEN /\ ret' = Returned(Entry(me, "error", 0, 0, on_exception(config)))
           /\ UNCHANGED <<task, log, overlap>>
      ELSE /\ task' = [task EXCEPT ![t] = me]
           /\ overlap' = (overlap \/ Pending # {})
           /\ UNCHANGED <<log, ret>>

\* await pipeline.execute() returns the four replies.
pipeline_returns(t) ==
  /\ task[t].pc = "pending"
  /\ LET r == pipeline_execute(store, task[t].key, task[t].config, task[t].now, clock)
         c == r.request_count
         e == Entry(task[t], "ok", 4, c,
                    [kind |-> "return",
                     limited |-> is_limited(task[t].config, c),
                     remaining |-> requests_remaining(task[t].config, c),
                     reset |-> reset_time(task[t].now, task[t].config)])
     IN  /\ store' = r.store
         /\ log' = Append(log, e)
         /\ ret' = Returned(e)
  /\ task' = [task EXCEPT ![t] = Idle]

\* await pipeline.execute() raises (connection error, timeout); the server
\* may or may not have executed the transaction before the failure.
pipeline_raises(t) ==
  /\ task[t].pc = "pending"
  /\ \E applied \in BOOLEAN :
       store' = IF applied
                THEN pipeline_execute(store, task[t].key, task[t].config,
                                      task[t].now, clock).store
                ELSE store
  /\ LET e == Entry(task[t], "error", 4, 0, on_exception(task[t].config))
     IN  log' = Append(log, e) /\ ret' = Returned(e)
  /\ task' = [task EXCEPT ![t] = Idle]

\* is_rate_limited called directly, outside any request.
Call(t, key, config) ==
  /\ task[t].pc = "idle"
  /\ \A u \in Tasks : u < t => task[u].pc # "idle"
  /\ Len(log) + Cardinality(Pending) < MaxCalls
  /\ is_rate_limited(t, key, config)
  /\ UNCHANGED <<clock, rl_initialized, cache_initialized, redis_client, shutdown, store, http_vars>>

Execute(t) ==
  /\ req[t].pc = "idle"
  /\ pipeline_returns(t)
  /\ UNCHANGED <<clock, rl_initialized, cache_initialized, redis_client, shutdown, overlap, http_vars>>

ExecuteError(t) ==
  /\ req[t].pc = "idle"
  /\ pipeline_raises(t)
  /\ UNCHANGED <<clock, rl_initialized, cache_initialized, redis_client, shutdown, overlap, http_vars>>

\* ---------------------------------------------------------------- requests
\* The request of task t is answered.
respond(t, r, status_code, form, detail, headers, body) ==
  /\ responses' = Append(responses, Outcome(r, status_code, form, detail, headers, body))
  /\ req' = [req EXCEPT ![t] = NoReq]

rejected_mut(limited) == FALSE

\* if is_limited: in the rate_limit decorator and in RateLimitDependency.__call__.
rejected(limited) == limited

\* The code that follows await is_rate_limited(...) in the decorator's wrapper
\* and in RateLimitDependency.__call__, up to the call of the endpoint.
decided(t, r, res) ==
  LET rl == [consulted |-> TRUE, limited |-> res.limited,
             remaining |-> res.remaining, reset |-> res.reset]
      r1 == [r EXCEPT !.rl = rl, !.trace = @ \cup {"is_rate_limited"}]
      headers == rate_limit_headers(default_config, res.remaining, res.reset)
  IN  IF rejected(res.limited)
      THEN respond(t, r1, 429,
                   IF r.ep.limiter = "decorator" THEN "JSONResponse" ELSE "HTTPException",
                   "Rate limit exceeded", headers, NoValue)
      ELSE /\ req' = [req EXCEPT ![t] = [r1 EXCEPT !.pc = "endpoint"]]
           /\ UNCHANGED responses

\* The endpoint's value v travels back through the rate_limit decorator, which
\* sets response.headers[name] on it when the limiter was consulted.
finish(t, r, v) ==
  IF r.ep.limiter = "decorator" /\ r.rl.consulted
  THEN IF v.t = "Response"
       THEN respond(t, r, 200, "Response", "",
                    rate_limit_headers(default_config, r.rl.remaining, r.rl.reset), v)
       ELSE respond(t, r, 500, "AttributeError", "Internal Server Error", NoHeaders, NoValue)
  ELSE respond(t, r, 200, "value", "", NoHeaders, v)

\* A request arrives: the rate_limit wrapper or the RateLimitDependency runs up
\* to await is_rate_limited(...), or to the endpoint when the limiter is skipped.
begin(t, ep, key, params) ==
  /\ req[t].pc = "idle"
  /\ task[t].pc = "idle"
  /\ \A u \in Tasks : u < t => req[u].pc # "idle"
  /\ LET r == [NoReq EXCEPT !.ep = ep, !.key = key, !.params = params,
                            !.began = Len(responses)]
     IN  IF ep.limiter = "none" \/ testing_disabled \/ ~rl_initialized
         THEN /\ req' = [req EXCEPT ![t] = [r EXCEPT !.pc = "endpoint"]]
              /\ UNCHANGED <<task, log, ret, overlap, responses>>
         ELSE /\ is_rate_limited(t, key, default_config)
              /\ IF task'[t].pc = "pending"
                 THEN /\ req' = [req EXCEPT ![t] = [r EXCEPT !.pc = "is_rate_limited"]]
                      /\ UNCHANGED responses
                 ELSE decided(t, r, ret')
  /\ UNCHANGED <<pure_vars, db, clock, rl_initialized, cache_initialized, redis_client, shutdown,
                 store, testing_disabled>>

dispatch(t, ep, key, params) ==
  /\ Len(responses) + Cardinality(InFlight) < MaxRequests
  /\ begin(t, ep, key, params)

\* The limiter's pipeline answers and the wrapper or dependency goes on.
rate_limit_returns(t) ==
  /\ req[t].pc = "is_rate_limited"
  /\ pipeline_returns(t)
  /\ decided(t, req[t], ret')
  /\ UNCHANGED <<pure_vars, db, clock, rl_initialized, cache_initialized, redis_client, shutdown,
                 overlap, testing_disabled>>

rate_limit_fails_open(t) ==
  /\ req[t].pc = "is_rate_limited"
  /\ pipeline_raises(t)
  /\ decided(t, req[t], ret')
  /\ UNCHANGED <<pure_vars, db, clock, rl_initialized, cache_initialized, redis_client, shutdown,
                 overlap, testing_disabled>>

\* RateLimitDependency.disable_for_testing(disabled), which the test fixtures
\* call before their requests are sent.
disable_for_testing(disabled) ==
  /\ testing_disabled # disabled
  /\ responses = << >> /\ InFlight = {}
  /\ testing_disabled' = disabled
  /\ UNCHANGED <<pure_vars, db, clock, rl_initialized, cache_initialized, redis_client, shutdown,
                 store, task, log, ret, overlap, req, responses>>

skip_caching_mut == FALSE

\* if not redis_cache._initialized: the cache wrapper calls the function directly.
skip_caching == ~cache_initialized

\* The endpoint is called: the cache wrapper runs up to await redis_cache.get,
\* or straight to the function when the cache is not initialized.
endpoint(t) ==
  /\ req[t].pc = "endpoint"
  /\ LET r == [req[t] EXCEPT !.cache_init = cache_initialized]
     IN  IF r.ep.wrap = "cache" /\ ~skip_caching
         THEN req' = [req EXCEPT ![t] =
                        [r EXCEPT !.pc = "cache_get",
                                  !.ckey = generate_cache_key(r.ep.prefix, positional(r.params), << >>)]]
         ELSE req' = [req EXCEPT ![t] = [r EXCEPT !.pc = "compute"]]
  /\ UNCHANGED <<pure_vars, db, clock, rl_initialized, cache_initialized, redis_client, shutdown,
                 store, task, log, ret, overlap, testing_disabled, responses>>

effective_expire_mut(ex) == IF ex = None THEN NoExpiry ELSE ex.v

\* RedisCache.set: if expire is None: expire = settings.REDIS_CACHE_EXPIRE_SECONDS.
effective_expire(ex) ==
  IF ex = None THEN settings.REDIS_CACHE_EXPIRE_SECONDS ELSE ex.v

hit_mut(s, k, ex, tnow) == expire(s, k, ex, tnow)

\* What the wrapper sends to the store on a hit after the GET: nothing, the
\* cached result is returned at once.
hit(s, k, ex, tnow) == s

\* RedisCache.get answers: a hit returns the cached result, a miss goes on.
cache_get(t) ==
  /\ req[t].pc = "cache_get"
  /\ LET r == req[t]
         value == get(store, r.ckey)
         cached_result == IF value.nil THEN None ELSE _deserialize(value.val)
         r1 == [r EXCEPT !.found = value, !.get_ok = TRUE,
                         !.trace = @ \cup {"cache_get"}]
     IN  IF is_hit(cached_result)
         THEN /\ store' = hit(store, r.ckey, effective_expire(r.ep.expire), clock)
              /\ finish(t, r1, cached_result)
         ELSE /\ req' = [req EXCEPT ![t] = [r1 EXCEPT !.pc = "compute"]]
              /\ UNCHANGED <<store, responses>>
  /\ UNCHANGED <<pure_vars, db, clock, rl_initialized, cache_initialized, redis_client, shutdown,
                 task, log, ret, overlap, testing_disabled>>

get_except_mut == [kind |-> "raise", value |-> None]

\* The except branch of RedisCache.get: the error is logged, None is returned.
get_except == [kind |-> "return", value |-> None]

\* The GET raises (connection error, timeout).
cache_get_error(t) ==
  /\ req[t].pc = "cache_get"
  /\ LET r == [req[t] EXCEPT !.trace = @ \cup {"cache_get"}]
     IN  IF get_except.kind = "raise"
         THEN respond(t, r, 500, "RedisError", "Internal Server Error", NoHeaders, NoValue)
         ELSE IF is_hit(get_except.value)
         THEN finish(t, r, get_except.value)
         ELSE /\ req' = [req EXCEPT ![t] = [r EXCEPT !.pc = "compute"]]
              /\ UNCHANGED responses
  /\ UNCHANGED <<pure_vars, db, clock, rl_initialized, cache_initialized, redis_client, shutdown,
                 store, task, log, ret, overlap, testing_disabled>>

\* The wrapped function's value or exception leaves the outermost wrapper.
leave(t, r) ==
  IF r.raised # ""
  THEN respond(t, r, 500, "HTTPException", r.raised, NoHeaders, NoValue)
  ELSE finish(t, r, r.value)

\* The invalidate_cache wrappers still to run (r.todo): the next one tests
\* redis_cache._initialized and calls delete_pattern with its pattern.
invalidate(t, r) ==
  IF r.todo = << >> \/ ~cache_initialized
  THEN leave(t, [r EXCEPT !.todo = << >>, !.keys = {}])
  ELSE /\ req' = [req EXCEPT ![t] = [r EXCEPT !.pc = "keys", !.keys = {}]]
       /\ UNCHANGED responses

finally_invalidate_mut == TRUE

\* The invalidate_cache wrapper has no finally clause around await func(...).
finally_invalidate == FALSE

func_except_mut == [kind |-> "return", value |-> None]

\* result = await func(*args, **kwargs) in the @cache wrapper stands in no try
\* block: what func raises leaves the wrapper as it is.
func_except == [kind |-> "raise", value |-> NoValue]

\* The endpoint's function runs: it returns a value or raises, and the wrapper
\* around it goes on to its next await or returns.  A mutating function
\* commits its change to the database before it returns.
compute(t) ==
  /\ req[t].pc = "compute"
  /\ LET r == [req[t] EXCEPT !.trace = @ \cup {"compute"}, !.computes = @ + 1]
         committed == IF r.ep.wrap = "invalidate" THEN db + 1 ELSE db
     IN  \/ /\ db' = committed
            /\ \E v \in Returns(r.ep, committed) :
                 LET r1 == [r EXCEPT !.value = v]
                 IN  IF r.ep.wrap = "cache" /\ r.ckey # "" /\ ~client_raises
                     THEN /\ req' = [req EXCEPT ![t] = [r1 EXCEPT !.pc = "cache_set"]]
                          /\ UNCHANGED responses
                     ELSE IF r.ep.wrap = "invalidate"
                     THEN invalidate(t, [r1 EXCEPT !.todo = r.ep.patterns])
                     ELSE finish(t, r1, v)
         \/ /\ r.ep.raises
            /\ db' = db
            /\ LET r1 == [r EXCEPT !.raised = "Database error"]
               IN  IF r.ep.wrap = "invalidate" /\ finally_invalidate
                   THEN invalidate(t, [r1 EXCEPT !.todo = r.ep.patterns])
                   ELSE IF r.ep.wrap = "cache" /\ func_except.kind = "return"
                   THEN finish(t, r1, func_except.value)
                   ELSE leave(t, r1)
  /\ UNCHANGED <<pure_vars, clock, rl_initialized, cache_initialized, redis_client, shutdown,
                 store, task, log, ret, overlap, testing_disabled>>

set_except_mut == [kind |-> "raise", value |-> FALSE]

\* The except branch of RedisCache.set: the error is logged, False is returned.
set_except == [kind |-> "return", value |-> FALSE]

\* RedisCache.set has failed, in _serialize or in the SET command: the wrapper
\* ignores the False it returns and returns the result.
set_failed(t, r) ==
  IF set_except.kind = "raise"
  THEN respond(t, r, 500, "SerializationError", "Internal Server Error", NoHeaders, NoValue)
  ELSE finish(t, [r EXCEPT !.set_ok = set_except.value], r.value)

\* RedisCache.set serializes the result and stores it, or gives up when the
\* result cannot be serialized; the wrapper returns the result.
cache_set(t) ==
  /\ req[t].pc = "cache_set"
  /\ LET r == [req[t] EXCEPT !.trace = @ \cup {"cache_set"}]
     IN  IF serialize_raises(r.value)
         THEN /\ store' = store
              /\ set_failed(t, r)
         ELSE /\ store' = set(store, r.ckey, _serialize(r.value),
                              effective_expire(r.ep.expire), clock)
              /\ finish(t, [r EXCEPT !.set_ok = TRUE], r.value)
  /\ UNCHANGED <<pure_vars, db, clock, rl_initialized, cache_initialized, redis_client, shutdown,
                 task, log, ret, overlap, testing_disabled>>

\* The SET raises; RedisCache.set logs the error and returns False.
cache_set_error(t) ==
  /\ req[t].pc = "cache_set"
  /\ ~serialize_raises(req[t].value)
  /\ LET r == [req[t] EXCEPT !.trace = @ \cup {"cache_set"}]
     IN  /\ \E applied \in BOOLEAN :
              store' = IF applied
                       THEN set(store, r.ckey, _serialize(r.value),
                                effective_expire(r.ep.expire), clock)
                       ELSE store
         /\ set_failed(t, r)
  /\ UNCHANGED <<pure_vars, db, clock, rl_initialized, cache_initialized, redis_client, shutdown,
                 task, log, ret, overlap, testing_disabled>>

\* What one delete_pattern call did: its pattern, the keys KEYS returned, the
\* number it returned, and whether it ended without a store error.
Deletion(pattern, ks, deleted, ok) ==
  [pattern |-> pattern, keys |-> ks, deleted |-> deleted, ok |-> ok]

\* delete_pattern, first command: KEYS pattern; without keys it returns 0.
delete_pattern_keys(t) ==
  /\ req[t].pc = "keys"
  /\ LET pattern == Head(req[t].todo)
         r == [req[t] EXCEPT !.keys = keys(store, pattern),
                             !.trace = @ \cup {"keys"}]
     IN  IF r.keys = {}
         THEN invalidate(t, [r EXCEPT !.todo = Tail(@),
                                      !.inval = Append(@, Deletion(pattern, {}, 0, TRUE))])
         ELSE /\ req' = [req EXCEPT ![t] = [r EXCEPT !.pc = "delete"]]
              /\ UNCHANGED responses
  /\ UNCHANGED <<pure_vars, db, clock, rl_initialized, cache_initialized, redis_client, shutdown,
                 store, task, log, ret, overlap, testing_disabled>>

\* delete_pattern, second command: DEL of the keys found, which answers with
\* the number of keys it removed.
delete_pattern_delete(t) ==
  /\ req[t].pc = "delete"
  /\ LET r == [req[t] EXCEPT !.trace = @ \cup {"delete"}]
         deleted == Cardinality(r.keys \cap DOMAIN store)
     IN  /\ store' = Del(store, r.keys)
         /\ invalidate(t, [r EXCEPT !.todo = Tail(@),
                                    !.inval = Append(@, Deletion(Head(r.todo), r.keys,
                                                                 deleted, TRUE))])
  /\ UNCHANGED <<pure_vars, db, clock, rl_initialized, cache_initialized, redis_client, shutdown,
                 task, log, ret, overlap, testing_disabled>>

delete_except_mut == [kind |-> "raise", value |-> 0]

\* The except branch of delete_pattern: the error is logged, 0 is returned.
delete_except == [kind |-> "return", value |-> 0]

\* Either command raises (connection error, timeout); the server may or may
\* not have executed the DEL before the failure.
delete_pattern_error(t) ==
  /\ req[t].pc \in {"keys", "delete"}
  /\ \E applied \in BOOLEAN :
       /\ applied => req[t].pc = "delete"
       /\ store' = IF applied THEN Del(store, req[t].keys) ELSE store
  /\ LET r == [req[t] EXCEPT !.trace = @ \cup {req[t].pc},
                             !.todo = Tail(@),
                             !.inval = Append(@, Deletion(Head(req[t].todo), req[t].keys,
                                                          delete_except.value, FALSE))]
     IN  IF delete_except.kind = "raise"
         THEN respond(t, r, 500, "RedisError", "Internal Server Error", NoHeaders, NoValue)
         ELSE invalidate(t, r)
  /\ UNCHANGED <<pure_vars, db, clock, rl_initialized, cache_initialized, redis_client, shutdown,
                 task, log, ret, overlap, testing_disabled>>

\* The @cache wrapper derives the key of a call.
wrapper_key ==
  /\ keygen.pc = "call" /\ keygen.fn = "wrapper"
  /\ LET key_args == positional(key_components(keygen.path_params, keygen.query_params))
     IN  keygen' = [keygen EXCEPT
                      !.pc = "done",
                      !.key_str = key_str(keygen.prefix, key_args, << >>),
                      !.cache_key = generate_cache_key(keygen.prefix, key_args, << >>)]
  /\ UNCHANGED <<clock, rl_initialized, cache_initialized, redis_client, shutdown, store,
                 task, log, ret, overlap, testing_disabled, req, responses, db, codec>>

\* generate_cache_key is called with positional or keyword arguments.
keyword_key ==
  /\ keygen.pc = "call" /\ keygen.fn = "generate_cache_key"
  /\ keygen' = [keygen EXCEPT
                  !.pc = "done",
                  !.key_str = key_str(keygen.prefix, keygen.args, keygen.kwargs),
                  !.cache_key = generate_cache_key(keygen.prefix, keygen.args,
                                                   keygen.kwargs)]
  /\ UNCHANGED <<clock, rl_initialized, cache_initialized, redis_client, shutdown, store,
                 task, log, ret, overlap, testing_disabled, req, responses, db, codec>>

\* FLUSHDB: every key of the database is removed.
flushdb(s) == << >>

\* RedisCache.clear_all; without a usable client the exception is caught and
\* nothing is sent.
clear_all ==
  /\ redis_client /\ cache_initialized
  /\ store' = flushdb(store)
  /\ UNCHANGED <<clock, rl_initialized, cache_initialized, redis_client, shutdown,
                 task, log, ret, overlap, http_vars>>

\* The keys the cached reads of the shared store are kept under.
CachedKeys == {generate_cache_key(get_products.prefix, << >>, << >>)}

\* RedisCache.delete called with the key of a cached read.
cache_delete(key) ==
  /\ redis_client /\ cache_initialized
  /\ store' = Del(store, {key})
  /\ UNCHANGED <<clock, rl_initialized, cache_initialized, redis_client, shutdown,
                 task, log, ret, overlap, http_vars>>

\* RedisCache.set serializes the value it is given.
codec_serialize ==
  /\ codec.pc = "call"
  /\ codec' = [codec EXCEPT !.pc = "stored", !.text = _serialize(codec.value)]
  /\ UNCHANGED <<clock, rl_initialized, cache_initialized, redis_client, shutdown, store,
                 task, log, ret, overlap, testing_disabled, req, responses, db, keygen>>

\* RedisCache.get deserializes the text it reads.
codec_deserialize ==
  /\ codec.pc = "stored"
  /\ codec' = [codec EXCEPT !.pc = "done", !.back = _deserialize(codec.text)]
  /\ UNCHANGED <<clock, rl_initialized, cache_initialized, redis_client, shutdown, store,
                 task, log, ret, overlap, testing_disabled, req, responses, db, keygen>>

Next ==
  \/ Tick
  \/ rl_initialize
  \/ rl_close
  \/ cache_initialize
  \/ cache_close
  \/ \E t \in Tasks, key \in Identities, config \in RateLimitConfig : Call(t, key, config)
  \/ \E t \in Tasks : Execute(t)
  \/ \E t \in Tasks : ExecuteError(t)

Spec == Init /\ [][Next]_vars

\* Requests to the rate limited endpoints and to an invalidating one; the
\* limiter's commands may fail, the cache commands are answered.
NextHttp ==
  \/ Tick
  \/ rl_initialize
  \/ rl_close
  \/ cache_initialize
  \/ cache_close
  \/ \E disabled \in BOOLEAN : disable_for_testing(disabled)
  \/ \E t \in Tasks, ep \in HttpEndpoints, key \in Identities : dispatch(t, ep, key, << >>)
  \/ \E t \in Tasks : rate_limit_returns(t)
  \/ \E t \in Tasks : rate_limit_fails_open(t)
  \/ \E t \in Tasks : endpoint(t)
  \/ \E t \in Tasks : cache_get(t)
  \/ \E t \in Tasks : compute(t)
  \/ \E t \in Tasks : cache_set(t)
  \/ \E t \in Tasks : delete_pattern_keys(t)
  \/ \E t \in Tasks : delete_pattern_delete(t)

SpecHttp == Init /\ [][NextHttp]_vars

\* Reads and updates of one product: the cached reads are not rate limited
\* (the limiter is never initialized), the cache commands of the reads are
\* answered, the commands of an invalidation may fail.  The requests are
\* served within the time to live of the entries: no entry expires.
product_request(t, ep) ==
  /\ Len(responses) + Cardinality(InFlight) < MaxProductRequests
  /\ begin(t, ep, "X", <<"id:1">>)

NextProduct ==
  \/ cache_initialize
  \/ cache_close
  \/ \E t \in Tasks, ep \in ProductEndpoints : product_request(t, ep)
  \/ \E t \in Tasks : endpoint(t)
  \/ \E t \in Tasks : cache_get(t)
  \/ \E t \in Tasks : compute(t)
  \/ \E t \in Tasks : cache_set(t)
  \/ \E t \in Tasks : delete_pattern_keys(t)
  \/ \E t \in Tasks : delete_pattern_delete(t)
  \/ \E t \in Tasks : delete_pattern_error(t)

SpecProduct == Init /\ [][NextProduct]_vars

\* Key derivations: each behaviour derives the key of one call.
InitKey ==
  /\ Constructed
  /\ keygen \in KeyCalls
  /\ codec = NoCodec

NextKey ==
  \/ wrapper_key
  \/ keyword_key

SpecKey == InitKey /\ [][NextKey]_vars

\* Round trips: each behaviour takes one value through the serializer and back.
InitSerial ==
  /\ Constructed
  /\ keygen = NoCall
  /\ codec \in CodecCalls

NextSerial ==
  \/ codec_serialize
  \/ codec_deserialize

SpecSerial == InitSerial /\ [][NextSerial]_vars

\* The limiter and the cache on one database: rate limited cached reads,
\* invalidating writes, and the maintenance operations of the cache.
StoreEndpoints == {get_products, create_product}

NextStore ==
  \/ Tick
  \/ rl_initialize
  \/ cache_initialize
  \/ \E t \in Tasks, ep \in StoreEndpoints, key \in Identities : dispatch(t, ep, key, << >>)
  \/ \E t \in Tasks : rate_limit_returns(t)
  \/ \E t \in Tasks : endpoint(t)
  \/ \E t \in Tasks : cache_get(t)
  \/ \E t \in Tasks : compute(t)
  \/ \E t \in Tasks : cache_set(t)
  \/ \E t \in Tasks : delete_pattern_keys(t)
  \/ \E t \in Tasks : delete_pattern_delete(t)
  \/ \E key \in CachedKeys : cache_delete(key)
  \/ clear_all

SpecStore == Init /\ [][NextStore]_vars

\* Calls of the limiter for several clients and prefixes, all answered.
NextWindows ==
  \/ Tick
  \/ rl_initialize
  \/ cache_initialize
  \/ \E t \in Tasks, key \in WindowIdentities, config \in WindowConfig : Call(t, key, config)
  \/ \E t \in Tasks : Execute(t)

SpecWindows == Init /\ [][NextWindows]_vars

\* Calls of a function wrapped by @cache.
NextCache ==
  \/ Tick
  \/ cache_initialize
  \/ cache_close
  \/ \E t \in Tasks, ep \in CachedOps :
       \E params \in ParamsOf(ep) : dispatch(t, ep, "X", params)
  \/ \E t \in Tasks : endpoint(t)
  \/ \E t \in Tasks : cache_get(t)
  \/ \E t \in Tasks : cache_get_error(t)
  \/ \E t \in Tasks : compute(t)
  \/ \E t \in Tasks : cache_set(t)
  \/ \E t \in Tasks : cache_set_error(t)

SpecCache == Init /\ [][NextCache]_vars

\* ================================================================ claims
\* The calls of the log were issued one after the other, all with configuration
\* c, all answered by the store, and less than one window has passed since the
\* first call read the clock.
OneWindow(c) ==
  /\ ~overlap
  /\ log # << >>
  /\ \A i \in DOMAIN log : log[i].config = c /\ log[i].status = "ok"
  /\ clock - log[1].now < c.period_seconds

\* C1: of N sequential requests of one identity within one window, the k-th is
\* rejected exactly when k > requestLimit.
C1_Claim ==
  \A c \in RateLimitConfig :
    OneWindow(c) => \A k \in DOMAIN log : log[k].limited <=> (k > c.requests)

\* The admitted calls of configuration c whose clock reading lies in [a, a + window).
AdmittedIn(c, a) ==
  {i \in DOMAIN log : /\ log[i].status = "ok" /\ ~log[i].limited
                      /\ a <= log[i].now /\ log[i].now < a + c.period_seconds}

\* C2: under every interleaving, the admitted requests of one identity within any
\* interval of one window length number at most requestLimit + 1.
C2_Claim ==
  \A c \in RateLimitConfig :
    (\A i \in DOMAIN log : log[i].config = c)
      => \A a \in 0..MaxClock : Cardinality(AdmittedIn(c, a)) <= c.requests + 1

\* Call j is answered by the store and every call recorded before it read a
\* clock more than one window (of j's configuration) earlier.
AfterQuietWindow(j) ==
  /\ log[j].status = "ok"
  /\ \A k \in 1..(j - 1) : log[k].now < log[j].now - log[j].config.period_seconds

\* C3: the first request after more than windowSeconds without requests is
\* admitted with remaining = requestLimit - 1.
C3_Thm ==
  \A j \in DOMAIN log :
    AfterQuietWindow(j) =>
      ~log[j].limited /\ log[j].remaining = log[j].config.requests - 1

C3_Witness ==
  /\ Len(log) >= 2
  /\ AfterQuietWindow(2)
  /\ log[1].status = "ok"
  /\ log[1].remaining = 0

\* C4: limited = (c > requestLimit), remaining = max(0, requestLimit - c), so
\* 0 <= remaining <= requestLimit - 1, limited implies remaining = 0, and the
\* k-th request of a window (k <= requestLimit) returns requestLimit - k.
C4_Claim ==
  /\ \A i \in DOMAIN log :
       log[i].status = "ok" =>
         LET lim == log[i].config.requests
             c == log[i].count
         IN  /\ log[i].limited <=> (c > lim)
             /\ log[i].remaining = (IF lim - c > 0 THEN lim - c ELSE 0)
             /\ 0 <= log[i].remaining /\ log[i].remaining <= lim - 1
             /\ log[i].limited => log[i].remaining = 0
  /\ \A c \in RateLimitConfig :
       OneWindow(c) =>
         \A k \in DOMAIN log : k <= c.requests => log[k].remaining = c.requests - k

\* C5: while the limiter is not initialized a call returns (False, requestLimit,
\* windowSeconds), sends nothing to the store and leaves the store unchanged.
C5_Thm ==
  [][(ret' # ret /\ ~ret'.init) =>
       /\ ret'.kind = "return" /\ ~ret'.limited
       /\ ret'.remaining = ret'.config.requests
       /\ ret'.reset = ret'.config.period_seconds
       /\ ret'.ops = 0
       /\ store' = store]_vars

\* A call has returned while the limiter was closed again after serving a call.
C5_Witness == ret.status = "uninit" /\ log # << >>

\* C6: a call that fails while building or executing its batch raises nothing
\* and returns (False, requestLimit, windowSeconds).
C6_Thm ==
  /\ ret.status = "error" =>
       /\ ret.kind = "return" /\ ~ret.limited
       /\ ret.remaining = ret.config.requests
       /\ ret.reset = ret.config.period_seconds
  /\ \A i \in DOMAIN log :
       log[i].status = "error" =>
         /\ log[i].kind = "return" /\ ~log[i].limited
         /\ log[i].remaining = log[i].config.requests
         /\ log[i].reset = log[i].config.period_seconds

\* Both failures have happened: a store error during execute, and later a
\* RuntimeError from the client property with the limiter initialized.
C6_Witness ==
  /\ \E i \in DOMAIN log : log[i].status = "error"
  /\ ret.status = "error" /\ ret.ops = 0 /\ ret.init

\* ------------------------------------------------------- request layer
\* C7: whenever is_rate_limited returned limited = True to the decorator or the
\* dependency, the client receives 429 "Rate limit exceeded" with limit = the
\* configured requests and remaining and reset as is_rate_limited returned
\* them; a JSONResponse from the decorator, an HTTPException from the dependency.
C7_Thm ==
  \A i \in DOMAIN responses :
    LET r == responses[i]
    IN  (r.rl.consulted /\ r.rl.limited) =>
          /\ r.status_code = 429
          /\ r.detail = "Rate limit exceeded"
          /\ r.headers = [limit |-> ToString(default_config.requests),
                          remaining |-> ToString(r.rl.remaining),
                          reset |-> ToString(r.rl.reset)]
          /\ r.limiter = "decorator" => r.form = "JSONResponse"
          /\ r.limiter = "dependency" => r.form = "HTTPException"

\* A request was rejected by the decorator.
C7_Witness ==
  \E i \in DOMAIN responses :
    /\ responses[i].rl.consulted /\ responses[i].rl.limited
    /\ responses[i].limiter = "decorator"
    /\ responses[i].status_code = 429

\* What a request may do only after it has been admitted.
Protected == {"cache_get", "compute", "cache_set", "keys", "delete"}

\* C8: for a request the limiter rejects, neither the cache lookup, nor the
\* compute function, nor an invalidation is executed, and no cache entry is
\* read, written or deleted for it.
C8_Thm ==
  \A i \in DOMAIN responses :
    LET r == responses[i]
    IN  (r.rl.consulted /\ r.rl.limited) =>
          /\ r.trace \cap Protected = {}
          /\ r.ckey = "" /\ r.found = Nil /\ ~r.set_ok /\ r.value = NoValue

\* The dependency rejected a request to a cached endpoint while the cache was
\* initialized, after another request had gone through the lookup and compute.
C8_Witness ==
  /\ cache_initialized
  /\ Len(responses) = 2
  /\ responses[1].trace \cap Protected # {}
  /\ responses[2].rl.consulted /\ responses[2].rl.limited
  /\ responses[2].ep = "get_products"
  /\ responses[2].status_code = 429

\* C9: a request the rate_limit decorator admits, whose endpoint returns, gets
\* the endpoint's response with status 200, the body unchanged and the three
\* X-RateLimit headers, for a Response object and for a model object alike.
C9_Claim ==
  \A i \in DOMAIN responses :
    LET r == responses[i]
    IN  (r.limiter = "decorator" /\ r.rl.consulted /\ ~r.rl.limited /\ r.value # NoValue) =>
          /\ r.status_code = 200
          /\ r.body = r.value
          /\ r.headers = rate_limit_headers(default_config, r.rl.remaining, r.rl.reset)
          /\ r.form # "AttributeError"

\* C10: with the cache initialized and the store answering, the second of two
\* sequential calls with the same cache key, the first of which stored its
\* result and whose entry is still there, returns the stored result without
\* invoking compute, whatever value was stored.
C10_Claim ==
  \A i, j \in DOMAIN responses :
    LET a == responses[i]
        b == responses[j]
    IN  ( /\ i < j /\ i <= b.began
          /\ a.wrap = "cache" /\ b.wrap = "cache"
          /\ a.ckey # "" /\ b.ckey = a.ckey
          /\ a.set_ok
          /\ b.get_ok /\ ~b.found.nil ) =>
            /\ "compute" \notin b.trace
            /\ b.body = _deserialize(b.found.val)

\* ------------------------------------------------------------ cache-aside
\* How often compute has been invoked for calls that derived cache key k.
Invocations(k) ==
  Cardinality({i \in DOMAIN responses :
                 responses[i].ckey = k /\ "compute" \in responses[i].trace})
  + Cardinality({t \in Tasks : req[t].ckey = k /\ "compute" \in req[t].trace})

\* The cache keys the calls made so far have derived.
CacheKeys ==
  ({responses[i].ckey : i \in DOMAIN responses} \cup {req[t].ckey : t \in Tasks}) \ {""}

\* The cache has been initialized throughout and the store has answered every
\* command the calls have sent so far.
StoreHealthy ==
  /\ cache_initialized
  /\ \A i \in DOMAIN responses :
       LET r == responses[i]
       IN  /\ r.ckey # ""
           /\ "cache_get" \in r.trace => r.get_ok
           /\ "compute" \in r.trace => r.set_ok
  /\ \A t \in InFlight :
       /\ req[t].ckey # ""
       /\ "cache_get" \in req[t].trace => req[t].get_ok

\* C11: for calls of a cached operation with the same cache key, concurrent or
\* sequential, made within one TTL window with a healthy store, compute is
\* invoked at most once.
C11_Claim ==
  (StoreHealthy /\ clock < cached_op.expire.v) =>
    \A k \in CacheKeys : Invocations(k) <= 1

\* C12: a call of a cached operation that finds the cache not initialized
\* invokes compute exactly once, returns or raises exactly what compute
\* returned or raised, and reads and writes nothing in the store.
C12_Thm ==
  \A i \in DOMAIN responses :
    LET r == responses[i]
    IN  (r.wrap = "cache" /\ ~r.cache_init) =>
          /\ r.trace = {"compute"} /\ r.computes = 1
          /\ r.ckey = "" /\ r.found = Nil /\ ~r.get_ok /\ ~r.set_ok
          /\ r.raised = "" => r.form = "value" /\ r.status_code = 200 /\ r.body = r.value
          /\ r.raised # "" => r.form = "HTTPException" /\ r.detail = r.raised

\* After a call has stored its result the cache is closed, and a call with the
\* same parameters computes again although the entry is still in the store.
C12_Witness ==
  /\ Len(responses) = 2
  /\ responses[1].set_ok
  /\ Exists(store, responses[1].ckey)
  /\ responses[2].wrap = "cache" /\ ~responses[2].cache_init
  /\ responses[2].params = responses[1].params
  /\ responses[2].computes = 1 /\ responses[2].raised = ""

\* C13: with the cache initialized, a store error during the read is taken for
\* a miss (compute is invoked), a store error during the write changes nothing
\* for the caller, and in both cases the wrapper returns compute's result; no
\* error of the store reaches the caller.
C13_Thm ==
  \A i \in DOMAIN responses :
    LET r == responses[i]
    IN  (r.wrap = "cache" /\ r.cache_init) =>
          /\ r.form # "RedisError"
          /\ ("cache_get" \in r.trace /\ ~r.get_ok) => r.computes = 1
          /\ (r.computes = 1 /\ r.raised = "") =>
               r.form = "value" /\ r.status_code = 200 /\ r.body = r.value

\* One call has met a store error in its read and another in its write.
C13_Witness ==
  \E i \in DOMAIN responses :
    /\ responses[i].wrap = "cache" /\ responses[i].cache_init
    /\ "cache_get" \in responses[i].trace /\ ~responses[i].get_ok
    /\ "cache_set" \in responses[i].trace /\ ~responses[i].set_ok
    /\ responses[i].status_code = 200

Invalidated(w) ==
  /\ w.wrap = "invalidate"
  /\ w.status_code = 200 /\ w.raised = ""
  /\ Len(w.inval) = Len(w.patterns)
  /\ \A n \in DOMAIN w.inval : w.inval[n].ok

\* Response r is a served read of the product row.
ServedRead(r) == r.wrap = "cache" /\ r.status_code = 200

\* The cached operation of read r is covered by a pattern of mutation w.
Covered(w, r) ==
  \E n \in DOMAIN w.patterns : glob_match(w.patterns[n], r.ep_prefix \o ":")

\* C15: a read of the product that starts after a mutation has returned
\* successfully with its invalidation completed returns data computed after
\* that write, whatever reads were in flight during the write.
C15_Claim ==
  \A i \in DOMAIN responses : \A j \in DOMAIN responses :
    LET w == responses[i]
        r == responses[j]
    IN  (Invalidated(w) /\ ServedRead(r) /\ i <= r.began) =>
          Stock(r.body) >= Stock(w.value)

\* The same statement for the reads whose keys the mutation's patterns cover.
C15_Covered ==
  \A i \in DOMAIN responses : \A j \in DOMAIN responses :
    LET w == responses[i]
        r == responses[j]
    IN  (Invalidated(w) /\ ServedRead(r) /\ Covered(w, r) /\ i <= r.began) =>
          Stock(r.body) >= Stock(w.value)

\* The same statement when no read overlaps a mutation.
C15_Sequential ==
  (\A i \in DOMAIN responses : responses[i].began = i - 1) =>
    \A i \in DOMAIN responses : \A j \in DOMAIN responses :
      LET w == responses[i]
          r == responses[j]
      IN  (Invalidated(w) /\ ServedRead(r) /\ Covered(w, r) /\ i <= r.began) =>
            Stock(r.body) >= Stock(w.value)

\* The results of the delete_pattern calls of task t's request after a step.
InvalAfter(t) ==
  IF req'[t].pc = "idle" THEN responses'[Len(responses')].inval ELSE req'[t].inval

\* What the delete_pattern call that ends in this step returned.
Returned_delete_pattern(t) == InvalAfter(t)[Len(req[t].inval) + 1]

\* A delete_pattern call of task t ends in this step without a store error.
Completes(t) ==
  /\ req[t].pc \in {"keys", "delete"}
  /\ Len(InvalAfter(t)) = Len(req[t].inval) + 1
  /\ Returned_delete_pattern(t).ok

\* C16: a delete_pattern(p) call that completes without a store error leaves
\* no key that matched p when its KEYS command ran, leaves every key that does
\* not match p as it was (value and time to live), and returns the number of
\* keys it deleted; when nothing matched it returns 0 and issues no DEL.
C16_Thm ==
  [][ \A t \in Tasks :
        LET p == Head(req[t].todo)
            matching == {k \in DOMAIN store : glob_match(p, k)}
        IN  /\ (req[t].pc = "keys" /\ req'[t].pc = "delete") =>
                 /\ req'[t].keys = matching /\ matching # {}
                 /\ store' = store
            /\ (req[t].pc = "keys" /\ Completes(t)) =>
                 /\ matching = {}
                 /\ Returned_delete_pattern(t).deleted = 0
                 /\ store' = store
            /\ (req[t].pc = "delete" /\ Completes(t)) =>
                 /\ \A k \in req[t].keys : k \notin DOMAIN store'
                 /\ \A k \in DOMAIN store :
                      ~glob_match(p, k) => k \in DOMAIN store' /\ store'[k] = store[k]
                 /\ Returned_delete_pattern(t).deleted
                      = Cardinality(DOMAIN store \ DOMAIN store')
                 /\ DOMAIN store' \subseteq DOMAIN store
    ]_vars

\* One invalidation deleted an entry while an entry of another prefix stayed
\* in the store, and another found nothing to delete.
C16_Witness ==
  /\ \E i \in DOMAIN responses : \E n \in DOMAIN responses[i].inval :
       LET d == responses[i].inval[n]
       IN  /\ d.ok /\ d.deleted >= 1
           /\ \E k \in DOMAIN store : ~glob_match(d.pattern, k)
  /\ \E i \in DOMAIN responses : \E n \in DOMAIN responses[i].inval :
       LET d == responses[i].inval[n]
       IN  d.ok /\ d.deleted = 0 /\ d.keys = {}

\* C17: when the wrapped mutating operation raises, the invalidate_cache
\* wrappers around it, however many are stacked, send no command to the store
\* and delete no key, and the caller receives the operation's exception.
C17_Thm ==
  [][ /\ \A t \in Tasks :
           (req[t].ep.wrap = "invalidate" /\ req[t].pc = "compute"
              /\ req'[t].raised # "") =>
             /\ store' = store
             /\ req'[t].pc \notin {"keys", "delete"}
      /\ \A t \in Tasks :
           (req[t].ep.wrap = "invalidate" /\ req[t].pc \in {"keys", "delete"}) =>
             req[t].raised = ""
      /\ (Len(responses') = Len(responses) + 1) =>
           LET r == responses'[Len(responses')]
           IN  (r.wrap = "invalidate" /\ r.raised # "") =>
                 /\ r.inval = << >>
                 /\ "keys" \notin r.trace /\ "delete" \notin r.trace
                 /\ r.form = "HTTPException" /\ r.detail = r.raised
                 /\ r.status_code = 500
                 /\ db' = db
    ]_vars

\* update_product, under three stacked invalidate_cache decorators, has raised
\* while the cache was initialized and held entries its patterns match.
C17_Witness ==
  /\ Len(responses) = 3
  /\ responses[1].ep = "get_product" /\ responses[1].set_ok
  /\ responses[2].ep = "get_product_by_sku" /\ responses[2].set_ok
  /\ responses[3].ep = "update_product" /\ responses[3].began = 2
  /\ responses[3].raised # "" /\ responses[3].cache_init /\ cache_initialized
  /\ Exists(store, responses[1].ckey) /\ glob_match("product_id:*", responses[1].ckey)
  /\ Exists(store, responses[2].ckey) /\ glob_match("product_sku:*", responses[2].ckey)

\* C18: when the mutating operation has returned, the invalidate_cache wrapper
\* returns that result and raises nothing, whether the deletion met a store
\* error (in KEYS or in DEL) or the cache was not initialized; no step of the
\* invalidation takes back what the operation committed.
C18_Thm ==
  [][ /\ (Len(responses') = Len(responses) + 1) =>
           LET r == responses'[Len(responses')]
           IN  (r.wrap = "invalidate" /\ r.computes = 1 /\ r.raised = "") =>
                 /\ r.form = "value" /\ r.status_code = 200
                 /\ r.body = r.value
                 /\ Stock(r.value) <= db'
      /\ \A t \in Tasks :
           (req[t].pc \in {"keys", "delete"} /\ req'[t] # req[t]) => db' = db
      /\ db' >= db
    ]_vars

\* One mutation returned although a command of its invalidation failed, and
\* one returned without invalidating because the cache was not initialized.
C18_Witness ==
  /\ \E i \in DOMAIN responses :
       /\ responses[i].wrap = "invalidate" /\ responses[i].status_code = 200
       /\ \E n \in DOMAIN responses[i].inval : ~responses[i].inval[n].ok
  /\ \E i \in DOMAIN responses :
       /\ responses[i].wrap = "invalidate" /\ responses[i].status_code = 200
       /\ responses[i].patterns # << >> /\ responses[i].inval = << >>

\* ---------------------------------------------------------------------------
\* Cache keys
\* ---------------------------------------------------------------------------

\* The parameter pairs a sequence supplies, as a set.
Pairs(items) == {items[i] : i \in DOMAIN items}

\* The same pairs supplied in another order.
Reordered(items, other) ==
  Len(other) = Len(items) /\ Pairs(other) = Pairs(items)

\* The text has the form '{prefix}:{32 hex digits}'.
HasKeyForm(text, prefix) ==
  LET n == Len(prefix) + 1
  IN  /\ Len(text) = n + 32
      /\ SubSeq(text, 1, n) = prefix \o ":"
      /\ \A i \in (n + 1)..(n + 32) :
           \E d \in 1..Len(HexDigits) : SubSeq(text, i, i) = SubSeq(HexDigits, d, d)

\* C19: the key the @cache wrapper derives is the key it derives for every
\* other order of supply of the same path and query parameters, the key
\* generate_cache_key returns is the key it returns for every other order of
\* the same keyword arguments, and every key is the prefix, a colon and 32
\* hexadecimal digits.
C19_Thm ==
  keygen.pc = "done" =>
    /\ HasKeyForm(keygen.cache_key, keygen.prefix)
    /\ keygen.fn = "wrapper" =>
         \A c \in WrapperCalls :
           ( /\ c.prefix = keygen.prefix
             /\ Reordered(keygen.path_params, c.path_params)
             /\ Reordered(dict(keygen.query_params), dict(c.query_params)) ) =>
             generate_cache_key(c.prefix,
                                positional(key_components(c.path_params, c.query_params)),
                                << >>) = keygen.cache_key
    /\ keygen.fn = "generate_cache_key" =>
         \A c \in KeywordCalls :
           (c.prefix = keygen.prefix /\ Reordered(keygen.kwargs, c.kwargs)) =>
             generate_cache_key(c.prefix, keygen.args, c.kwargs) = keygen.cache_key

\* The key of a call with a path parameter and two query parameters supplied
\* in descending order of their names has been derived.
C19_Witness ==
  /\ keygen.pc = "done" /\ keygen.fn = "wrapper"
  /\ keygen.path_params # << >>
  /\ Len(keygen.query_params) = 2
  /\ keygen.query_params[1][1] = "skip" /\ keygen.query_params[2][1] = "limit"
  /\ HasKeyForm(keygen.cache_key, "products_category")

\* The effective parameters of a call of a cached route.
Effective(c) == <<Pairs(c.path_params), Pairs(dict(c.query_params))>>

\* C20: two calls of one cached operation with different effective parameters
\* are hashed from different texts.
C20_Claim ==
  (keygen.pc = "done" /\ keygen.fn = "wrapper") =>
    \A c \in WrapperCalls :
      (c.prefix = keygen.prefix /\ Effective(c) # Effective(keygen)) =>
        key_str(c.prefix, positional(key_components(c.path_params, c.query_params)),
                << >>) # keygen.key_str

\* No value of a parameter contains the separator.
Plain(c) ==
  \A i \in DOMAIN c.path_params :
    \A n \in 1..Len(c.path_params[i][2].v) : SubSeq(c.path_params[i][2].v, n, n) # ":"

\* The same statement for calls whose values do not contain a colon.
C20_Plain ==
  (keygen.pc = "done" /\ keygen.fn = "wrapper" /\ Plain(keygen)) =>
    \A c \in WrapperCalls :
      (c.prefix = keygen.prefix /\ Plain(c) /\ Effective(c) # Effective(keygen)) =>
        key_str(c.prefix, positional(key_components(c.path_params, c.query_params)),
                << >>) # keygen.key_str

\* Distinct hashed texts have distinct digests.
NoCollision ==
  keygen.pc = "done" =>
    \A c \in KeyCalls :
      LET text == IF c.fn = "wrapper"
                  THEN key_str(c.prefix,
                               positional(key_components(c.path_params, c.query_params)),
                               << >>)
                  ELSE key_str(c.prefix, c.args, c.kwargs)
      IN  text # keygen.key_str =>
            c.prefix \o ":" \o hexdigest(text) # keygen.cache_key

\* The text begins with '{prefix}:'.
StartsWith(text, prefix) ==
  Len(text) > Len(prefix) /\ SubSeq(text, 1, Len(prefix) + 1) = prefix \o ":"

\* C21: the key generate_cache_key returns for a value passed as the one
\* positional argument differs from the key it returns for the same prefix and
\* the same value passed under a name, and both keys begin with the prefix and
\* a colon.
C21_Thm ==
  (keygen.pc = "done" /\ keygen.fn = "generate_cache_key" /\ Len(keygen.args) = 1) =>
    \A name \in {"a", "b"} :
      LET named == generate_cache_key(keygen.prefix, << >>, << <<name, keygen.args[1]>> >>)
      IN  /\ named # keygen.cache_key
          /\ StartsWith(named, keygen.prefix)
          /\ StartsWith(keygen.cache_key, keygen.prefix)

\* The key of a product passed as a positional argument has been derived.
C21_Witness ==
  /\ keygen.pc = "done" /\ keygen.fn = "generate_cache_key"
  /\ keygen.args = <<Product>>
  /\ keygen.key_str = "p:{\"sku\": \"A1\"}"

\* C22: when the result of compute cannot be serialized, RedisCache.set sends
\* no command, leaves the store as it was and returns False, and the wrapper
\* returns compute's result to the caller without raising.
C22_Thm ==
  [][ \A t \in Tasks :
        (req[t].pc = "cache_set" /\ serialize_raises(req[t].value)
           /\ req'[t] # req[t]) =>
          /\ store' = store
          /\ Len(responses') = Len(responses) + 1
          /\ LET r == responses'[Len(responses')]
             IN  /\ ~r.set_ok
                 /\ r.form = "value" /\ r.status_code = 200
                 /\ r.body = req[t].value /\ r.computes = 1
    ]_vars

\* A call whose result could not be serialized has returned it, and the key
\* it derived is not in the store.
C22_Witness ==
  \E i \in DOMAIN responses :
    /\ responses[i].value = Circular /\ responses[i].body = Circular
    /\ "cache_set" \in responses[i].trace
    /\ ~Exists(store, responses[i].ckey)

Attempts(l, j) ==
  {i \in 1..j : /\ key_name(l[i].config, l[i].key) = key_name(l[j].config, l[j].key)
                /\ l[i].now > l[j].now - l[j].config.period_seconds}

AdmittedOrPending(l, j) == {i \in Attempts(l, j) : i = j \/ ~l[i].limited}

\* The calls up to j ran one after the other with one configuration, were all
\* answered by the store and read pairwise distinct clock values.
Sequential(l, j) ==
  /\ ~overlap
  /\ \A i \in 1..j : l[i].status = "ok" /\ l[i].config = l[j].config
  /\ \A i, k \in 1..j : i # k => l[i].now # l[k].now

\* Task t receives the replies of its batch in this step, and the batch was
\* executed at the clock reading the call took.
BatchExecuted(t) ==
  /\ task[t].pc = "pending" /\ task'[t].pc = "idle"
  /\ Len(log') = Len(log) + 1
  /\ log'[Len(log')].status = "ok"
  /\ task[t].now = clock

EntriesOf(s, type) ==
  LET ks == {k \in DOMAIN s : s[k].type = type} IN [k \in ks |-> s[k]]

\* C25: no cache-layer operation (set, delete, delete_pattern as used by
\* invalidation, clear_all) creates, modifies or removes a rate-limiter window
\* key, and no limiter batch creates, modifies or removes a cache entry.
C25_Claim ==
  [][/\ (clock' = clock /\ log' = log) =>
          EntriesOf(store', "zset") = EntriesOf(store, "zset")
     /\ log' # log => EntriesOf(store', "string") = EntriesOf(store, "string")]_vars

\* The calls up to j ran one after the other with one configuration and were
\* all answered by the store.
OneAfterTheOther(l, j) ==
  /\ ~overlap
  /\ \A i \in 1..j : l[i].status = "ok" /\ l[i].config = l[j].config

\* C26: the request is recorded before the decision and stays recorded when
\* it is rejected: a request is limited exactly when the attempts (admitted
\* or rejected) recorded for its key in (now - windowSeconds, now] number more
\* than requestLimit, and is admitted again only when fewer than requestLimit
\* earlier attempts remain in its trailing window.
C26_Claim ==
  [][\A t \in Tasks :
       (BatchExecuted(t) /\ OneAfterTheOther(log', Len(log'))) =>
         LET j == Len(log')
             kn == key_name(task[t].config, task[t].key)
         IN  /\ \E m \in store'[kn].members : m.score = task[t].now
             /\ log'[j].limited <=>
                  Cardinality(Attempts(log', j)) > task[t].config.requests
             /\ ~log'[j].limited <=>
                  Cardinality(Attempts(log', j) \ {j}) < task[t].config.requests]_vars

\* C26 for calls that read pairwise distinct clock values.
C26_Distinct ==
  [][\A t \in Tasks :
       (BatchExecuted(t) /\ Sequential(log', Len(log'))) =>
         LET j == Len(log')
             kn == key_name(task[t].config, task[t].key)
         IN  /\ \E m \in store'[kn].members : m.score = task[t].now
             /\ log'[j].limited <=>
                  Cardinality(Attempts(log', j)) > task[t].config.requests
             /\ ~log'[j].limited <=>
                  Cardinality(Attempts(log', j) \ {j}) < task[t].config.requests]_vars

\* Store s with every key but k removed.
Only(s, k) == [x \in (DOMAIN s) \cap {k} |-> s[x]]

\* The members of the sorted set at key k of store s.
Members(s, k) == IF Exists(s, k) THEN s[k].members ELSE {}

\* Store s without key k.
Without(s, k) == [x \in (DOMAIN s) \ {k} |-> s[x]]

\* C27: a call reads and writes only the sorted set at '{prefix}:{identity}':
\* the windows of other identities and prefixes are left unchanged and do not
\* change its outcome, while calls with the same prefix and identity work on
\* one set whatever their requestLimit and windowSeconds.
C27_Thm ==
  [][\A t \in Tasks :
       (task[t].pc = "pending" /\ task'[t].pc = "idle" /\ Len(log') = Len(log) + 1) =>
         LET me == task[t]
             kn == me.config.prefix \o ":" \o me.key
             alone == pipeline_execute(Only(store, kn), me.key, me.config, me.now, clock)
             before == Members(store, kn)
         IN  /\ Without(store', kn) = Without(store, kn)
             /\ log'[Len(log')].count = alone.request_count
             /\ Only(store', kn) = Only(alone.store, kn)
             /\ Members(store', kn) =
                  {m \in before : m.score > me.now - me.config.period_seconds
                                  /\ m.member # ToString(me.now)}
                    \cup {[member |-> ToString(me.now), score |-> me.now]}]_vars

\* Client X has called with both configurations of prefix "ratelimit", the
\* second call counting the member of the first; client Y's call then read a
\* window of its own and left X's alone.
C27_Witness ==
  /\ Len(log) = 3
  /\ log[1].key = "X" /\ log[2].key = "X" /\ log[3].key = "Y"
  /\ \A i \in 1..3 : log[i].config.prefix = "ratelimit" /\ log[i].status = "ok"
  /\ log[1].config # log[2].config
  /\ log[2].count = 2
  /\ log[3].count = 1
  /\ Cardinality(Members(store, "ratelimit:X")) = 2
  /\ Cardinality(Members(store, "ratelimit:Y")) = 1

\* C28: a cache hit leaves the store unchanged: the wrapper neither rewrites
\* the entry nor extends its time to live, so an entry written at time t with
\* time to live ttl is absent from t + ttl on, however often it was read,
\* unless it was deleted or rewritten after a miss earlier.
C28_Thm ==
  [][/\ \A t \in Tasks :
          (req[t].pc = "cache_get" /\ req'[t] # req[t]) => store' = store
     /\ \A k \in (DOMAIN store) \cap (DOMAIN store') :
          store'[k] # store[k] =>
            \E t \in Tasks :
              /\ req[t].pc = "cache_set" /\ req[t].ckey = k /\ req'[t] # req[t]
              /\ "compute" \in req[t].trace
              /\ store'[k].exp = clock + effective_expire(req[t].ep.expire)
     /\ \A k \in DOMAIN store' :
          store'[k].exp # NoExpiry /\ store'[k].exp > clock']_vars

\* An entry with a time to live of 2 was written, read by a later call that
\* was served from it, and is gone.
C28_Witness ==
  /\ Len(responses) = 2
  /\ responses[1].ep = "cached_op" /\ responses[1].set_ok
  /\ responses[2].ep = "cached_op" /\ responses[2].ckey = responses[1].ckey
  /\ responses[2].computes = 0 /\ ~responses[2].found.nil
  /\ responses[2].body = responses[1].body
  /\ ~Exists(store, responses[1].ckey)
  /\ clock = 2

OneAtATime(rs) == \A i \in DOMAIN rs : rs[i].began = i - 1

\* C30: after a successful product mutation and its invalidation, no cache
\* entry of a product read endpoint that was written before the mutation is
\* still present.
C30_Claim ==
  [][(/\ Len(responses') = Len(responses) + 1
      /\ Invalidated(responses'[Len(responses')])
      /\ OneAtATime(responses')) =>
       \A j \in DOMAIN responses :
         (responses[j].wrap = "cache" /\ responses[j].set_ok) =>
           ~Exists(store', responses[j].ckey)]_vars

\* The same statement for the entries the mutation's patterns cover.
C30_Covered ==
  [][(/\ Len(responses') = Len(responses) + 1
      /\ Invalidated(responses'[Len(responses')])
      /\ OneAtATime(responses')) =>
       \A j \in DOMAIN responses :
         (/\ responses[j].wrap = "cache" /\ responses[j].set_ok
          /\ Covered(responses'[Len(responses')], responses[j])) =>
           ~Exists(store', responses[j].ckey)]_vars

====
